---- MODULE Spec2Model ----
(***************************************************************************)
(* A model of the organizer pipeline (src/src/main.rs): the Planner walks  *)
(* the tree and plans Actions, the ActionEngine executes them, prunes      *)
(* empty directories, and the DedupePlan scans the destination root and    *)
(* resolves duplicate groups.                                              *)
(*                                                                         *)
(* A path is the sequence of its components below the traversal root       *)
(* (<<>> is the root).  A component is a record [stem, ext] as Rust's      *)
(* Path::file_stem / Path::extension split it.  The filesystem is the      *)
(* sequence of its entries; the position of an entry is the order in which *)
(* read_dir yields it.  Names are valid UTF-8, and no directory on a       *)
(* destination path is a symbolic link.                                    *)
(***************************************************************************)
EXTENDS Integers, Sequences, FiniteSets, TLC

\* ------------------------------------------------------------------ bounds

\* the largest number of entries of an initial tree
MaxEntries == 5

\* the number of consecutive runs of the program on the same tree
MaxRuns == 2

\* the number of symbolic links the kernel follows when resolving one path
MaxLinkDepth == 3

\* the most children of the directory the Classifier is asked about
MaxChildren == 8

\* ------------------------------------------------------------------ state

VARIABLES
    fs,                 \* the filesystem below the root
    cli,                \* the parsed command line (Cli), fixed for all runs
    settings,           \* the Settings main loaded, fixed for all runs
    mounts,             \* the devices mounted below the root, fixed for all runs
    file_cmd,           \* can the program `file` be run, fixed for all runs
    calls,              \* DedupePlan::apply: the system calls made for duplicates in this run
    run,                \* the number of the current run of the program
    pc,                 \* where main is: "plan", "exec", "prune", "hash", "dedupe", "done", "failed"
    it,                 \* the WalkDir iterator of the Planner: the paths still to yield
    yielded,            \* the paths the iterator of the Planner has yielded in this run
    planned_whole_dirs, \* main: planned_whole_dirs
    planned_actions,    \* main: planned_actions
    executed,           \* execute_all: how many planned actions have been executed
    prune_it,           \* the iterator of prune_empty_dirs: the paths still to yield
    files,              \* DedupePlan::files
    tasks,              \* DedupePlan::scan: the task of the parallel loop for each record
    groups,             \* DedupePlan::apply: the groups HashMap
    todo,               \* DedupePlan::apply: the keys not yet iterated
    log,                \* the lines the ActionEngine has logged in this run
    fs0,                \* the filesystem when this run started
    history             \* per finished run: its mode, plan, log and filesystems

vars == <<fs, cli, settings, mounts, file_cmd, calls, run, pc, it, yielded, planned_whole_dirs, planned_actions, executed,
          prune_it, files, tasks, groups, todo, log, fs0, history>>

\* ------------------------------------------------------------------ names and paths

N(stem, ext) == [stem |-> stem, ext |-> ext]

\* OsStr of a component: Path::file_name
FileName(n) == IF n.ext = "" THEN n.stem ELSE n.stem \o "." \o n.ext

Root == <<>>

Parent(p) == SubSeq(p, 1, Len(p) - 1)

Last(p) == p[Len(p)]

\* Path::starts_with: component-wise prefix
StartsWith(p, base) ==
    /\ Len(base) <= Len(p)
    /\ SubSeq(p, 1, Len(base)) = base

\* Path::join of one component
Join(p, n) == Append(p, n)

\* str::to_lowercase on the extensions that occur in the model
to_lowercase(s) ==
    CASE s = "TXT" -> "txt"
      [] s = "JPG" -> "jpg"
      [] s = "RS" -> "rs"
      [] s = "BAK" -> "bak"
      [] OTHER -> s

\* ------------------------------------------------------------------ filesystem

\* the target of a symbolic link as read_link returns it: absolute (from the
\* root of the tree) or relative (to the directory that holds the link)
Target(abs, path) == [abs |-> abs, path |-> path]

NoTarget == Target(FALSE, <<>>)

\* an entry: where it is, what it is, its length and content (of a file),
\* its target (of a link), and whether the process may open it for reading
Dir(p) ==
    [path |-> p, kind |-> "dir", size |-> 0, data |-> "", target |-> NoTarget,
     readable |-> TRUE]

File(p, size, data) ==
    [path |-> p, kind |-> "file", size |-> size, data |-> data, target |-> NoTarget,
     readable |-> TRUE]

Link(p, t) ==
    [path |-> p, kind |-> "link", size |-> 0, data |-> "", target |-> t,
     readable |-> TRUE]

\* the entry e without read permission for the process
Unreadable(e) == [e EXCEPT !.readable = FALSE]

\* is there an entry at exactly this path (lstat succeeds)
Has(f, p) == p = Root \/ \E i \in DOMAIN f : f[i].path = p

Node(f, p) ==
    IF p = Root THEN Dir(Root) ELSE f[CHOOSE i \in DOMAIN f : f[i].path = p]

\* symlink_metadata(p).file_type()
KindOf(f, p) == IF Has(f, p) THEN Node(f, p).kind ELSE "none"

\* read_dir(d): the entries directly in d, in directory order
ReadDir(f, d) == SelectSeq(f, LAMBDA e : Len(e.path) = Len(d) + 1 /\ StartsWith(e.path, d))

\* path resolution as the kernel does it: every component is looked up in the
\* directory reached so far, a symbolic link restarts the walk at its target
RECURSIVE ResolveFrom(_, _, _, _)
ResolveFrom(f, base, rest, fuel) ==
    IF rest = <<>> THEN [ok |-> TRUE, path |-> base]
    ELSE LET nxt == Join(base, Head(rest)) IN
         IF ~Has(f, nxt) THEN [ok |-> FALSE, path |-> <<>>]
         ELSE IF Node(f, nxt).kind = "link"
              THEN IF fuel = 0 THEN [ok |-> FALSE, path |-> <<>>]
                   ELSE LET t == Node(f, nxt).target IN
                        ResolveFrom(f, IF t.abs THEN Root ELSE base,
                                    t.path \o Tail(rest), fuel - 1)
         ELSE IF Tail(rest) # <<>> /\ Node(f, nxt).kind # "dir"
              THEN [ok |-> FALSE, path |-> <<>>]
         ELSE ResolveFrom(f, nxt, Tail(rest), fuel)

Resolve(f, p) == ResolveFrom(f, Root, p, MaxLinkDepth)

\* Path::exists: follows symbolic links, false for a dangling link
Exists(f, p) == Resolve(f, p).ok

\* Path::is_dir and Path::is_file: follow symbolic links
IsDir(f, p) == Resolve(f, p).ok /\ KindOf(f, Resolve(f, p).path) = "dir"

IsFile(f, p) == Resolve(f, p).ok /\ KindOf(f, Resolve(f, p).path) = "file"

\* fs::File::open of p for reading succeeds on a file
CanRead(f, p) == IsFile(f, p) /\ Node(f, Resolve(f, p).path).readable

\* a mounted device: where it is mounted, whether it can hold symbolic links,
\* whether it is full (no file content can be written to it), and whether it
\* is mounted read-only
Mount(at, symlinks, full) ==
    [at |-> at, symlinks |-> symlinks, full |-> full, readonly |-> FALSE]

\* the device m mounted read-only
ReadOnly(m) == [m EXCEPT !.readonly = TRUE]

\* the device of the root
RootDevice == Mount(Root, TRUE, FALSE)

\* the device a path lies on
DeviceOf(p) ==
    IF \E m \in mounts : StartsWith(p, m.at)
    THEN CHOOSE m \in mounts : StartsWith(p, m.at)
    ELSE RootDevice

\* may entries be made, renamed or removed at p
Writable(p) == ~DeviceOf(p).readonly

\* is a device mounted on p
IsMountPoint(p) == \E m \in mounts : m.at = p

\* std::io::Error of an errno: its ErrorKind and the words Display writes,
\* "<strerror> (os error <errno>)"
OsError(errno) ==
    CASE errno = "EXDEV" ->
            [kind |-> "CrossesDevices",
             display |-> <<"Invalid", "cross-device", "link", "(os", "error", "18)">>]
      [] errno = "ENOENT" ->
            [kind |-> "NotFound",
             display |-> <<"No", "such", "file", "or", "directory", "(os", "error", "2)">>]
      [] errno = "EINVAL" ->
            [kind |-> "InvalidInput",
             display |-> <<"Invalid", "argument", "(os", "error", "22)">>]
      [] errno = "EBUSY" ->
            [kind |-> "ResourceBusy",
             display |-> <<"Device", "or", "resource", "busy", "(os", "error", "16)">>]
      [] errno = "ENOTDIR" ->
            [kind |-> "NotADirectory",
             display |-> <<"Not", "a", "directory", "(os", "error", "20)">>]
      [] errno = "EISDIR" ->
            [kind |-> "IsADirectory",
             display |-> <<"Is", "a", "directory", "(os", "error", "21)">>]
      [] errno = "ENOTEMPTY" ->
            [kind |-> "DirectoryNotEmpty",
             display |-> <<"Directory", "not", "empty", "(os", "error", "39)">>]
      [] errno = "ENOSPC" ->
            [kind |-> "StorageFull",
             display |-> <<"No", "space", "left", "on", "device", "(os", "error", "28)">>]
      [] errno = "EROFS" ->
            [kind |-> "ReadOnlyFilesystem",
             display |-> <<"Read-only", "file", "system", "(os", "error", "30)">>]

\* remove p and everything below it
RemoveTree(f, p) == SelectSeq(f, LAMBDA e : ~StartsWith(e.path, p))

\* can p and everything below it be unlinked: nothing of it lies on a
\* read-only device and no device is mounted on it
Removable(f, p) ==
    \A i \in DOMAIN f :
        StartsWith(f[i].path, p) => Writable(f[i].path) /\ ~IsMountPoint(f[i].path)

\* rename(2) of src to a destination that is free (or replaced): the subtree
\* keeps its place in the directory order
RenameTree(f, src, dest) ==
    LET g == SelectSeq(f, LAMBDA e : e.path # dest) IN
    [i \in DOMAIN g |->
        IF StartsWith(g[i].path, src)
        THEN [g[i] EXCEPT !.path = dest \o SubSeq(g[i].path, Len(src) + 1, Len(g[i].path))]
        ELSE g[i]]

\* ------------------------------------------------------------------ settings

\* Settings::category_names
category_names ==
    {"Media", "Music", "Documents", "Archives", "Projects", "GitRepos", "Backups", "Others"}

default_media_exts ==
    {"jpg", "jpeg", "png", "gif", "bmp", "tiff", "tif", "webp", "heic", "heif", "raw",
     "cr2", "nef", "arw", "raf", "dng", "mp4", "mkv", "avi", "mov", "flv", "webm",
     "mpeg", "mpg", "m4v", "3gp", "3g2"}

default_audio_exts ==
    {"mp3", "wav", "flac", "ogg", "oga", "opus", "aac", "m4a", "wma", "aiff", "aif",
     "mid", "midi"}

default_document_exts ==
    {"pdf", "doc", "docx", "xls", "xlsx", "ppt", "pptx", "odt", "ods", "odp", "rtf",
     "txt", "csv", "md", "markdown", "epub", "mobi"}

default_archive_exts ==
    {"zip", "tar", "gz", "tgz", "bz2", "tbz", "xz", "7z", "rar", "iso", "img"}

default_code_exts ==
    {"rs", "py", "c", "cpp", "h", "hpp", "java", "kt", "go", "js", "ts", "tsx", "jsx",
     "php", "rb", "swift", "cs", "sh", "bash", "zsh", "fish", "ps1", "pl", "lua", "r",
     "sql", "json", "toml", "yaml", "yml", "xml", "gradle", "lock", "makefile", "cmake"}

default_home_markers ==
    {"Documents", "Documenten", "Downloads", "Afbeeldingen", "Pictures", "Muziek",
     "Music", "Videos", "Video's", "Bureaublad", "Desktop", ".config", ".local",
     ".bash_history", ".bashrc", ".profile", "Public", "Publiek"}

\* Settings::load_or_default: the lists, each the lines of its file or the
\* default when there is no file
Settings(media, audio, docs, arch, code, markers) ==
    [category_exts |-> [Media |-> media, Music |-> audio, Documents |-> docs,
                        Archives |-> arch],
     code_exts |-> code,
     home_markers |-> markers]

\* the Settings of a first start: every file holds its default
DefaultSettings ==
    Settings(default_media_exts, default_audio_exts, default_document_exts,
             default_archive_exts, default_code_exts, default_home_markers)

\* default_delete_patterns, by what each glob matches: "**/*.ext" an extension,
\* "**/name" a file name, "**/dir/**" a directory among the ancestors
JunkExts == {"tmp", "temp", "swp", "swo", "part"}

JunkNames == {"thumbs.db", "Thumbs.db", ".DS_Store", "desktop.ini"}

JunkDirs == {".cache", "Cache", "Thumbnails", ".Trash"}

\* utils::is_pattern_match with Settings::delete_matcher
is_pattern_match(p) ==
    /\ p # Root
    /\ \/ Last(p).ext \in JunkExts
       \/ FileName(Last(p)) \in JunkNames
       \/ \E i \in 1..(Len(p) - 1) : FileName(p[i]) \in JunkDirs

\* ------------------------------------------------------------------ Classifier

\* the MIME type of a content: [top, full], NoMime when the probe knows none
Mime(top, full) == [top |-> top, full |-> full]

NoMime == Mime("", "")

\* infer::get on the first 8 KiB of a content
infer_get(data) ==
    CASE data = "png" -> Mime("image", "image/png")
      [] data = "mp3" -> Mime("audio", "audio/mpeg")
      [] data = "pdf" -> Mime("application", "application/pdf")
      [] data = "zip" -> Mime("application", "application/zip")
      [] OTHER -> NoMime

\* what `file -b --mime-type` prints for a content
file_mime_type(data) ==
    CASE data = "png" -> Mime("image", "image/png")
      [] data = "mp3" -> Mime("audio", "audio/mpeg")
      [] data = "pdf" -> Mime("application", "application/pdf")
      [] data = "zip" -> Mime("application", "application/zip")
      [] data = "" -> Mime("inode", "inode/x-empty")
      [] OTHER -> Mime("text", "text/plain")

\* categorize.rs: mime_via_file_cmd; None when the command cannot be run
mime_via_file_cmd(data) == IF file_cmd THEN file_mime_type(data) ELSE NoMime

is_document_mime(m) ==
    \/ m.full \in {"application/pdf", "application/msword",
                   "application/vnd.openxmlformats-officedocument.wordprocessingml.document",
                   "application/vnd.ms-excel",
                   "application/vnd.openxmlformats-officedocument.spreadsheetml.sheet",
                   "application/vnd.ms-powerpoint",
                   "application/vnd.openxmlformats-officedocument.presentationml.presentation"}
    \/ m.top = "text"

is_archive_mime(m) ==
    m.full \in {"application/zip", "application/x-tar", "application/gzip",
                "application/x-7z-compressed", "application/x-rar-compressed",
                "application/x-xz"}

\* Categorizer::categorize_file: the name of the Category
categorize_file(f, p, use_file_cmd) ==
    LET ext  == to_lowercase(Last(p).ext)
        data == Node(f, Resolve(f, p).path).data
        fm   == IF CanRead(f, p) THEN mime_via_file_cmd(data) ELSE NoMime
        im   == infer_get(data)
    IN  IF ext # "" /\ ext \in settings.category_exts.Media THEN "Media"
        ELSE IF ext # "" /\ ext \in settings.category_exts.Music THEN "Music"
        ELSE IF ext # "" /\ ext \in settings.category_exts.Documents THEN "Documents"
        ELSE IF ext # "" /\ ext \in settings.category_exts.Archives THEN "Archives"
        ELSE IF use_file_cmd /\ fm.top \in {"image", "video"} THEN "Media"
        ELSE IF use_file_cmd /\ fm.top = "audio" THEN "Music"
        ELSE IF use_file_cmd /\ is_document_mime(fm) THEN "Documents"
        ELSE IF use_file_cmd /\ is_archive_mime(fm) THEN "Archives"
        ELSE IF CanRead(f, p) /\ im.top \in {"image", "video"} THEN "Media"
        ELSE IF CanRead(f, p) /\ im.top = "audio" THEN "Music"
        ELSE "Others"

\* does a config file hold the line "bare = true"
HasBareLine(data) == data = "bare"

\* str::ends_with(".git") on a file name
EndsWithDotGit(n) == n.ext = "git" \/ (n.ext = "" /\ n.stem = ".git")

\* is_bare_git_repo(dir); name is dir.file_name()
is_bare_git_repo(f, dir, name) ==
    /\ IsDir(f, dir)
    /\ \/ /\ EndsWithDotGit(name)
          /\ IsFile(f, Join(dir, N("config", "")))
          /\ IsDir(f, Join(dir, N("objects", "")))
          /\ IsDir(f, Join(dir, N("refs", "")))
       \/ /\ CanRead(f, Join(dir, N("config", "")))
          /\ HasBareLine(Node(f, Resolve(f, Join(dir, N("config", ""))).path).data)

\* the `code_count >= 5` and `markers_found >= 3` thresholds
CodeFilesNeeded == 5

MarkersNeeded == 3

CountIn(s, Test(_)) == Len(SelectSeq(s, Test))

\* detect_special_directory testing `.git` with is_file instead of is_dir
detect_special_directory_git_file(f, dir, name) ==
    IF is_bare_git_repo(f, dir, name) THEN "GitRepos"
    ELSE IF IsFile(f, Join(dir, N(".git", ""))) THEN "Projects"
    ELSE ""

\* detect_special_directory counting the home markers before the code files
detect_special_directory_markers_first(f, dir, name) ==
    LET rd == ReadDir(f, dir)
        code == CountIn(rd, LAMBDA e : /\ IsFile(f, e.path)
                                       /\ Last(e.path).ext # ""
                                       /\ to_lowercase(Last(e.path).ext) \in settings.code_exts)
        markers == CountIn(rd, LAMBDA e : FileName(Last(e.path)) \in settings.home_markers)
    IN  IF is_bare_git_repo(f, dir, name) THEN "GitRepos"
        ELSE IF IsDir(f, Join(dir, N(".git", ""))) THEN "Projects"
        ELSE IF markers >= MarkersNeeded THEN "Backups"
        ELSE IF code >= CodeFilesNeeded THEN "Projects"
        ELSE ""

\* Categorizer::detect_special_directory: the name of the Category, "" for None
detect_special_directory(f, dir, name) ==
    LET rd == ReadDir(f, dir)
        code == CountIn(rd, LAMBDA e : /\ IsFile(f, e.path)
                                       /\ Last(e.path).ext # ""
                                       /\ to_lowercase(Last(e.path).ext) \in settings.code_exts)
        markers == CountIn(rd, LAMBDA e : FileName(Last(e.path)) \in settings.home_markers)
    IN  IF is_bare_git_repo(f, dir, name) THEN "GitRepos"
        ELSE IF IsDir(f, Join(dir, N(".git", ""))) THEN "Projects"
        ELSE IF code >= CodeFilesNeeded THEN "Projects"
        ELSE IF markers >= MarkersNeeded THEN "Backups"
        ELSE ""

\* ------------------------------------------------------------------ Planner

Dot == N(".", "")

\* the process runs in the root (PATH defaults to ".")
RootIsCwd == cli.root_name = Dot

\* Path::file_name of the root: None for "."
RootFileName == IF RootIsCwd THEN N("", "") ELSE cli.root_name

\* main: dest_root
dest_root == IF cli.under = "" THEN Root ELSE <<N(cli.under, "")>>

\* main: skip_dirs
skip_dirs ==
    {Join(dest_root, N(c, "")) : c \in category_names}
        \cup (IF cli.under = "" THEN {} ELSE {<<N(cli.under, "")>>})

UnderAny(p, roots) == \E r \in roots : StartsWith(p, r)

\* Path::exists of a path the process holds: a relative one is resolved
\* against the working directory of the process
CwdExists(f, t) ==
    IF t.abs \/ RootIsCwd THEN Exists(f, t.path) ELSE FALSE

\* utils::is_broken_symlink
is_broken_symlink(f, p) ==
    /\ KindOf(f, p) = "link"
    /\ ~CwdExists(f, Node(f, p).target)

MoveFile(src, dest_dir) ==
    [type |-> "MoveFile", src |-> src, dest |-> dest_dir, reason |-> ""]

MoveDir(src_dir, dest_dir) ==
    [type |-> "MoveDir", src |-> src_dir, dest |-> dest_dir, reason |-> ""]

Delete(path, reason) ==
    [type |-> "Delete", src |-> path, dest |-> <<>>, reason |-> reason]

Paths(entries) == [i \in DOMAIN entries |-> entries[i].path]

\* PlanEntry that plans the MoveDir of a directory and walks on into it
PlanEntry_descends(f, p, whole) ==
    LET kind == KindOf(f, p)
        name == IF p = Root THEN cli.root_name ELSE Last(p)
        fname == IF p = Root THEN RootFileName ELSE Last(p)
        cat  == detect_special_directory(f, p, fname)
        skip == [acts |-> <<>>, whole |-> {}, descend |-> FALSE]
    IN  IF UnderAny(p, skip_dirs) THEN skip
        ELSE IF UnderAny(p, whole) THEN skip
        ELSE IF kind = "link"
        THEN IF is_broken_symlink(f, p)
             THEN [skip EXCEPT !.acts = <<Delete(p, "broken symlink")>>]
             ELSE skip
        ELSE IF kind = "dir"
        THEN IF FileName(name) \in category_names
                  \/ (cli.under # "" /\ FileName(name) = cli.under)
             THEN skip
             ELSE IF cat # ""
             THEN [acts |-> <<MoveDir(p, dest_root \o <<N(cat, ""), fname>>)>>,
                   whole |-> {}, descend |-> TRUE]
             ELSE [skip EXCEPT !.descend = TRUE]
        ELSE IF is_pattern_match(p) /\ cli.clean
        THEN [skip EXCEPT !.acts = <<Delete(p, "cache/temp/junk (pattern)")>>]
        ELSE IF Node(f, p).size = 0 /\ cli.clean
        THEN [skip EXCEPT !.acts = <<Delete(p, "empty file")>>]
        ELSE [skip EXCEPT !.acts =
                <<MoveFile(p, Join(dest_root, N(categorize_file(f, p, cli.use_file_cmd), "")))>>]

\* PlanEntry that tests for an empty file before the delete patterns
PlanEntry_empty_first(f, p, whole) ==
    LET kind == KindOf(f, p)
        name == IF p = Root THEN cli.root_name ELSE Last(p)
        fname == IF p = Root THEN RootFileName ELSE Last(p)
        cat  == detect_special_directory(f, p, fname)
        skip == [acts |-> <<>>, whole |-> {}, descend |-> FALSE]
    IN  IF UnderAny(p, skip_dirs) THEN skip
        ELSE IF UnderAny(p, whole) THEN skip
        ELSE IF kind = "link"
        THEN IF is_broken_symlink(f, p)
             THEN [skip EXCEPT !.acts = <<Delete(p, "broken symlink")>>]
             ELSE skip
        ELSE IF kind = "dir"
        THEN IF FileName(name) \in category_names
                  \/ (cli.under # "" /\ FileName(name) = cli.under)
             THEN skip
             ELSE IF cat # ""
             THEN [acts |-> <<MoveDir(p, dest_root \o <<N(cat, ""), fname>>)>>,
                   whole |-> {p}, descend |-> FALSE]
             ELSE [skip EXCEPT !.descend = TRUE]
        ELSE IF Node(f, p).size = 0 /\ cli.clean
        THEN [skip EXCEPT !.acts = <<Delete(p, "empty file")>>]
        ELSE IF is_pattern_match(p) /\ cli.clean
        THEN [skip EXCEPT !.acts = <<Delete(p, "cache/temp/junk (pattern)")>>]
        ELSE [skip EXCEPT !.acts =
                <<MoveFile(p, Join(dest_root, N(categorize_file(f, p, cli.use_file_cmd), "")))>>]

\* one turn of the `while let Some(res) = it.next()` loop of main on the
\* entry at path p: what is planned, and whether WalkDir descends into p
PlanEntry(f, p, whole) ==
    LET kind == KindOf(f, p)
        name == IF p = Root THEN cli.root_name ELSE Last(p)
        fname == IF p = Root THEN RootFileName ELSE Last(p)
        cat  == detect_special_directory(f, p, fname)
        skip == [acts |-> <<>>, whole |-> {}, descend |-> FALSE]
    IN  IF UnderAny(p, skip_dirs) THEN skip
        ELSE IF UnderAny(p, whole) THEN skip
        ELSE IF kind = "link"
        THEN IF is_broken_symlink(f, p)
             THEN [skip EXCEPT !.acts = <<Delete(p, "broken symlink")>>]
             ELSE skip
        ELSE IF kind = "dir"
        THEN IF FileName(name) \in category_names
                  \/ (cli.under # "" /\ FileName(name) = cli.under)
             THEN skip
             ELSE IF cat # ""
             THEN [acts |-> <<MoveDir(p, dest_root \o <<N(cat, ""), fname>>)>>,
                   whole |-> {p}, descend |-> FALSE]
             ELSE [skip EXCEPT !.descend = TRUE]
        ELSE IF is_pattern_match(p) /\ cli.clean
        THEN [skip EXCEPT !.acts = <<Delete(p, "cache/temp/junk (pattern)")>>]
        ELSE IF Node(f, p).size = 0 /\ cli.clean
        THEN [skip EXCEPT !.acts = <<Delete(p, "empty file")>>]
        ELSE [skip EXCEPT !.acts =
                <<MoveFile(p, Join(dest_root, N(categorize_file(f, p, cli.use_file_cmd), "")))>>]

\* ------------------------------------------------------------------ ActionEngine

Line(op, src, dest, note) == [op |-> op, src |-> src, dest |-> dest, note |-> note]

\* what an engine operation returns: the filesystem it leaves, the lines it
\* logged, and whether it returned Ok
Outcome(f, lines, ok) == [fs |-> f, lines |-> lines, ok |-> ok]

\* the `for i in 1..10000` of unique_dest_path and unique_dir_dest
SuffixLimit == 10000

\* fs::create_dir_all: every missing directory of the chain is made; it fails
\* on a component that exists and is no directory, and on a read-only device
RECURSIVE create_dir_all(_, _)
create_dir_all(f, d) ==
    IF IsDir(f, d) THEN [ok |-> TRUE, fs |-> f]
    ELSE IF Has(f, d) \/ ~Writable(d) THEN [ok |-> FALSE, fs |-> f]
    ELSE LET up == create_dir_all(f, Parent(d)) IN
         IF up.ok THEN [ok |-> TRUE, fs |-> Append(up.fs, Dir(d))]
         ELSE up

\* the candidate name-i.ext (name-i without an extension) of unique_dest_path
FileCandidate(path, i) ==
    Join(Parent(path), N(Last(path).stem \o "-" \o ToString(i), Last(path).ext))

RECURSIVE FirstFreeFile(_, _, _)
FirstFreeFile(f, path, i) ==
    IF i >= SuffixLimit THEN path
    ELSE IF ~Exists(f, FileCandidate(path, i)) THEN FileCandidate(path, i)
    ELSE FirstFreeFile(f, path, i + 1)

\* actions.rs: unique_dest_path
unique_dest_path(f, path) ==
    IF ~Exists(f, path) THEN path ELSE FirstFreeFile(f, path, 1)

\* the candidate <file name>-i of unique_dir_dest
DirCandidate(path, i) ==
    Join(Parent(path),
         IF Last(path).ext = ""
         THEN N(Last(path).stem \o "-" \o ToString(i), "")
         ELSE N(Last(path).stem, Last(path).ext \o "-" \o ToString(i)))

RECURSIVE FirstFreeDir(_, _, _)
FirstFreeDir(f, path, i) ==
    IF i >= SuffixLimit THEN path
    ELSE IF ~Exists(f, DirCandidate(path, i)) THEN DirCandidate(path, i)
    ELSE FirstFreeDir(f, path, i + 1)

\* actions.rs: unique_dir_dest
unique_dir_dest(f, path) ==
    IF ~Exists(f, path) THEN path ELSE FirstFreeDir(f, path, 1)

\* the errno of rename(2) of src to dest, "" when it succeeds
RenameErrno(f, src, dest) ==
    IF src = Root \/ dest = Root THEN "EBUSY"
    ELSE IF ~Has(f, src) \/ ~IsDir(f, Parent(dest)) THEN "ENOENT"
    ELSE IF dest = src THEN ""
    ELSE IF StartsWith(dest, src) THEN "EINVAL"
    ELSE IF DeviceOf(src) # DeviceOf(dest) THEN "EXDEV"
    ELSE IF ~Writable(src) THEN "EROFS"
    ELSE IF IsMountPoint(src) \/ IsMountPoint(dest) THEN "EBUSY"
    ELSE IF ~Has(f, dest) THEN ""
    ELSE IF KindOf(f, src) = "dir" /\ KindOf(f, dest) # "dir" THEN "ENOTDIR"
    ELSE IF KindOf(f, src) # "dir" /\ KindOf(f, dest) = "dir" THEN "EISDIR"
    ELSE IF KindOf(f, src) = "dir" /\ ReadDir(f, dest) # <<>> THEN "ENOTEMPTY"
    ELSE ""

\* does rename(2) of src to dest succeed
RenameOk(f, src, dest) == RenameErrno(f, src, dest) = ""

\* fs::rename
rename(f, src, dest) ==
    IF RenameOk(f, src, dest)
    THEN [ok |-> TRUE, fs |-> IF dest = src THEN f ELSE RenameTree(f, src, dest), errno |-> ""]
    ELSE [ok |-> FALSE, fs |-> f, errno |-> RenameErrno(f, src, dest)]

\* actions.rs: is_cross_device; str::contains("EXDEV") looks for the substring
\* in the message, and no word of a message of the OS holds it
is_cross_device(err) ==
    /\ err.kind = "Other"
    /\ \E i \in DOMAIN err.display : err.display[i] = "EXDEV"

\* fs::copy of a file to the path dest: the content of src (through links) is
\* written to dest, which is created or overwritten
copy(f, src, dest) ==
    IF ~CanRead(f, src) \/ ~IsDir(f, Parent(dest)) THEN [ok |-> FALSE, fs |-> f]
    ELSE IF KindOf(f, dest) = "dir" \/ DeviceOf(dest).full \/ ~Writable(dest)
    THEN [ok |-> FALSE, fs |-> f]
    ELSE LET from == Node(f, Resolve(f, src).path)
             made == File(dest, from.size, from.data)
         IN  [ok |-> TRUE,
              fs |-> IF Has(f, dest)
                     THEN [i \in DOMAIN f |-> IF f[i].path = dest THEN made ELSE f[i]]
                     ELSE Append(f, made)]

\* fs::hard_link
hard_link(f, original, link) ==
    IF /\ Has(f, original) /\ KindOf(f, original) # "dir"
       /\ ~Has(f, link) /\ IsDir(f, Parent(link))
       /\ DeviceOf(original) = DeviceOf(link)
       /\ Writable(link)
    THEN Append(f, [Node(f, original) EXCEPT !.path = link])
    ELSE f

\* std::os::unix::fs::symlink
symlink(f, target, link) ==
    IF ~Has(f, link) /\ IsDir(f, Parent(link)) /\ DeviceOf(link).symlinks /\ Writable(link)
    THEN Append(f, Link(link, target))
    ELSE f

\* the order in which WalkDir yields the tree at d: a directory before its
\* content, links not followed; nothing when d does not exist
RECURSIVE Walk(_, _)
Walk(f, d) ==
    LET rd == ReadDir(f, d)
        Below[i \in 0..Len(rd)] ==
            IF i = 0 THEN <<>> ELSE Below[i - 1] \o Walk(f, rd[i].path)
    IN  IF ~Has(f, d) THEN <<>>
        ELSE IF KindOf(f, d) = "dir" THEN <<d>> \o Below[Len(rd)]
        ELSE <<d>>

\* the loop of copy_dir_recursive from its i-th entry on: a directory is made,
\* a file is copied, a symbolic link is made anew with the same target and a
\* failure to make it is ignored
RECURSIVE copy_entries(_, _, _, _, _)
copy_entries(f, src, dst, entries, i) ==
    IF i > Len(entries) THEN [ok |-> TRUE, fs |-> f]
    ELSE LET p == entries[i]
             target == dst \o SubSeq(p, Len(src) + 1, Len(p))
             kind == KindOf(f, p)
             made == create_dir_all(f, IF kind = "dir" THEN target ELSE Parent(target))
             done == IF kind = "file" THEN copy(made.fs, p, target)
                     ELSE IF kind = "link"
                     THEN [ok |-> TRUE, fs |-> symlink(f, Node(f, p).target, target)]
                     ELSE made
         IN  IF kind \in {"dir", "file"} /\ ~made.ok THEN made
             ELSE IF ~done.ok THEN done
             ELSE copy_entries(done.fs, src, dst, entries, i + 1)

\* actions.rs: copy_dir_recursive
copy_dir_recursive(f, src, dst) ==
    LET made == create_dir_all(f, dst) IN
    IF ~made.ok THEN made
    ELSE copy_entries(made.fs, src, dst, Tail(Walk(f, src)), 1)

\* the arm of move_dir for a cross-device error with the fallback allowed:
\* copy_dir_recursive, then remove_dir_all of the source
move_dir_fallback(f, src_dir, dest) ==
    LET copied == copy_dir_recursive(f, src_dir, dest) IN
    IF copied.ok
    THEN [ok |-> TRUE,
          fs |-> IF Removable(copied.fs, src_dir) THEN RemoveTree(copied.fs, src_dir)
                 ELSE copied.fs]
    ELSE copied

\* the arm of move_file for a cross-device error with the fallback allowed:
\* fs::copy, then remove_file of the source
move_file_fallback(f, src, dest) ==
    LET copied == copy(f, src, dest) IN
    IF copied.ok
    THEN [ok |-> TRUE,
          fs |-> IF Removable(copied.fs, src) THEN RemoveTree(copied.fs, src) ELSE copied.fs]
    ELSE copied

\* ActionEngine::move_file
move_file(f, apply, src, dest_dir) ==
    LET dest_path == Join(dest_dir, IF src = Root THEN N("", "") ELSE Last(src))
        line == Line("MOVE", src, dest_path, "")
        made == create_dir_all(f, dest_dir)
        dest == unique_dest_path(made.fs, dest_path)
        moved == rename(made.fs, src, dest)
        copied == move_file_fallback(made.fs, src, dest)
    IN  IF ~apply THEN Outcome(f, <<line>>, TRUE)
        ELSE IF ~made.ok THEN Outcome(made.fs, <<line>>, FALSE)
        ELSE IF moved.ok THEN Outcome(moved.fs, <<line>>, TRUE)
        ELSE IF is_cross_device(OsError(moved.errno)) /\ cli.allow_cross_device
        THEN Outcome(copied.fs, <<line>>, copied.ok)
        ELSE Outcome(made.fs, <<line, Line("ERROR moving", src, <<>>, moved.errno)>>, TRUE)

\* ActionEngine::move_dir
move_dir(f, apply, src_dir, dest_dir) ==
    LET line == Line("MOVE-DIR", src_dir, dest_dir, "")
        dest == IF Exists(f, dest_dir) THEN unique_dir_dest(f, dest_dir) ELSE dest_dir
        moved == rename(f, src_dir, dest)
        copied == move_dir_fallback(f, src_dir, dest)
    IN  IF ~apply THEN Outcome(f, <<line>>, TRUE)
        ELSE IF moved.ok THEN Outcome(moved.fs, <<line>>, TRUE)
        ELSE IF is_cross_device(OsError(moved.errno)) /\ cli.allow_cross_device
        THEN Outcome(copied.fs, <<line>>, copied.ok)
        ELSE Outcome(f, <<line, Line("ERROR moving dir", src_dir, <<>>, moved.errno)>>, TRUE)

\* delete without the `if self.apply` guard
delete_unguarded(f, apply, path, reason) ==
    Outcome(IF path # Root /\ Has(f, path) THEN RemoveTree(f, path) ELSE f,
            <<Line("DELETE", path, <<>>, reason)>>, TRUE)

\* ActionEngine::delete: remove_dir_all of a directory, remove_file of
\* anything else; a failure is ignored.  A removal that fails leaves the
\* path as it was (no Delete of a directory that holds a mount is planned)
delete(f, apply, path, reason) ==
    LET line == Line("DELETE", path, <<>>, reason) IN
    IF apply /\ path # Root /\ Has(f, path) /\ Removable(f, path)
    THEN Outcome(RemoveTree(f, path), <<line>>, TRUE)
    ELSE Outcome(f, <<line>>, TRUE)

\* ActionEngine::execute
execute(f, apply, a) ==
    CASE a.type = "MoveFile" -> move_file(f, apply, a.src, a.dest)
      [] a.type = "MoveDir" -> move_dir(f, apply, a.src, a.dest)
      [] a.type = "Delete" -> delete(f, apply, a.src, a.reason)

\* the order in which WalkDir with contents_first yields the tree below d:
\* the content of a directory before the directory, links not followed
RECURSIVE ContentsFirst(_, _)
ContentsFirst(f, d) ==
    LET rd == ReadDir(f, d)
        Below[i \in 0..Len(rd)] ==
            IF i = 0 THEN <<>>
            ELSE Below[i - 1]
                 \o (IF rd[i].kind = "dir" THEN ContentsFirst(f, rd[i].path) ELSE <<>>)
                 \o <<rd[i].path>>
    IN  Below[Len(rd)]

\* actions.rs: is_dir_empty
is_dir_empty(f, dir) == ReadDir(f, dir) = <<>>

\* prune_entry without the test against the skip-roots
prune_entry_no_skip(f, apply, p, skip_roots) ==
    IF KindOf(f, p) = "dir" /\ is_dir_empty(f, p)
    THEN Outcome(IF apply /\ Removable(f, p) THEN RemoveTree(f, p) ELSE f,
                 <<Line("PRUNE", p, <<>>, "")>>, TRUE)
    ELSE Outcome(f, <<>>, TRUE)

\* one turn of the loop of ActionEngine::prune_empty_dirs on the entry at p
prune_entry(f, apply, p, skip_roots) ==
    IF UnderAny(p, skip_roots) THEN Outcome(f, <<>>, TRUE)
    ELSE IF KindOf(f, p) = "dir" /\ is_dir_empty(f, p)
    THEN Outcome(IF apply /\ Removable(f, p) THEN RemoveTree(f, p) ELSE f,
                 <<Line("PRUNE", p, <<>>, "")>>, TRUE)
    ELSE Outcome(f, <<>>, TRUE)

\* ------------------------------------------------------------------ DedupePlan

NoHash == <<>>

\* the BLAKE3 digest of a content
blake3(data) == <<data>>

\* FileInfo::compute_hash: the record after the call; a file that cannot be
\* read leaves the hash unset (the Err is dropped by the caller)
compute_hash(f, fi) ==
    IF fi.hash = NoHash /\ CanRead(f, fi.path)
    THEN [fi EXCEPT !.hash = blake3(Node(f, fi.path).data)]
    ELSE fi

FileInfo(f, p) ==
    [path |-> p, name |-> FileName(Last(p)), size |-> Node(f, p).size, hash |-> NoHash]

\* DedupePlan::scan up to the parallel loop: a record for every file, in the
\* order of the walk
collect(f, root) ==
    LET found == SelectSeq(Walk(f, root), LAMBDA p : p # Root /\ KindOf(f, p) = "file")
    IN  [i \in DOMAIN found |-> FileInfo(f, found[i])]

\* DedupePlan::scan
scan(f, root, methods) ==
    LET infos == collect(f, root)
    IN  IF \E i \in DOMAIN methods : methods[i] = "Hash"
        THEN [i \in DOMAIN infos |-> compute_hash(f, infos[i])]
        ELSE infos

\* dedupe.rs: hex::encode
hex_encode(h) == "x" \o h[1]

\* a sub-key that gives every record without a hash a bucket of its own name
KeyPart_own_bucket(fi, m) ==
    CASE m = "Name" -> "N:" \o fi.name
      [] m = "Size" -> "S:" \o ToString(fi.size)
      [] m = "Hash" -> "H:" \o (IF fi.hash = NoHash THEN "NOHASH" \o fi.name
                                ELSE hex_encode(fi.hash))

\* the sub-key of one method
KeyPart(fi, m) ==
    CASE m = "Name" -> "N:" \o fi.name
      [] m = "Size" -> "S:" \o ToString(fi.size)
      [] m = "Hash" -> "H:" \o (IF fi.hash = NoHash THEN "NOHASH" ELSE hex_encode(fi.hash))

\* parts.join("|")
RECURSIVE JoinParts(_, _, _)
JoinParts(fi, methods, i) ==
    IF i > Len(methods) THEN ""
    ELSE KeyPart(fi, methods[i])
         \o (IF i < Len(methods) THEN "|" ELSE "")
         \o JoinParts(fi, methods, i + 1)

\* a key made of the first method only
GroupKey_first_method(fi, methods) == KeyPart(fi, methods[1])

\* DedupePlan::apply: the key of a record
GroupKey(fi, methods) == JoinParts(fi, methods, 1)

\* DedupePlan::apply: the groups map, each group in scan order
GroupsOf(infos, methods) ==
    [k \in {GroupKey(infos[i], methods) : i \in DOMAIN infos} |->
        SelectSeq(infos, LAMBDA fi : GroupKey(fi, methods) = k)]

DupReason(mode) ==
    CASE mode = "Delete" -> "duplicate file"
      [] mode = "Hardlink" -> "duplicate file (to hardlink)"
      [] mode = "Symlink" -> "duplicate file (to symlink)"

\* a system call made for a duplicate: its name, the path of the duplicate,
\* and whether it succeeded
Call(name, path, ok) == [call |-> name, path |-> path, ok |-> ok]

\* what the resolution of duplicates returns: the filesystem it leaves, the
\* lines it logged and the system calls it made
Resolved(f, lines, made) == [fs |-> f, lines |-> lines, calls |-> made]

\* the resolution of a duplicate against the newest file of the whole tree
\* instead of the first record of its group
resolve_dup_last_file(f, apply, mode, keep, dup) ==
    LET regular == SelectSeq(f, LAMBDA e : e.kind = "file")
        first == regular[Len(regular)].path
        del == delete(f, apply, dup.path, DupReason(mode))
        removed == Call("remove", dup.path, Has(f, dup.path) /\ ~Has(del.fs, dup.path))
        hard == hard_link(del.fs, first, dup.path)
        soft == symlink(del.fs, Target(~RootIsCwd, first), dup.path)
    IN  IF ~apply THEN Resolved(del.fs, del.lines, <<>>)
        ELSE IF mode = "Hardlink"
        THEN Resolved(hard, del.lines, <<removed, Call("hard_link", dup.path, hard # del.fs)>>)
        ELSE IF mode = "Symlink"
        THEN Resolved(soft, del.lines, <<removed, Call("symlink", dup.path, soft # del.fs)>>)
        ELSE Resolved(del.fs, del.lines, <<removed>>)

\* the body of `for dup in rest` of DedupePlan::apply: the Delete is
\* executed, and in apply mode the link is made whatever the removal did
resolve_dup(f, apply, mode, keep, dup) ==
    LET del == delete(f, apply, dup.path, DupReason(mode))
        removed == Call("remove", dup.path, Has(f, dup.path) /\ ~Has(del.fs, dup.path))
        hard == hard_link(del.fs, keep.path, dup.path)
        soft == symlink(del.fs, Target(~RootIsCwd, keep.path), dup.path)
    IN  IF ~apply THEN Resolved(del.fs, del.lines, <<>>)
        ELSE IF mode = "Hardlink"
        THEN Resolved(hard, del.lines, <<removed, Call("hard_link", dup.path, hard # del.fs)>>)
        ELSE IF mode = "Symlink"
        THEN Resolved(soft, del.lines, <<removed, Call("symlink", dup.path, soft # del.fs)>>)
        ELSE Resolved(del.fs, del.lines, <<removed>>)

\* one turn of `for (_k, vecf) in groups` of DedupePlan::apply
RECURSIVE resolve_rest(_, _, _, _, _)
resolve_rest(f, apply, mode, vecf, i) ==
    IF i > Len(vecf) THEN Resolved(f, <<>>, <<>>)
    ELSE LET one == resolve_dup(f, apply, mode, vecf[1], vecf[i])
             more == resolve_rest(one.fs, apply, mode, vecf, i + 1)
         IN  Resolved(more.fs, one.lines \o more.lines, one.calls \o more.calls)

\* the loop over the whole group instead of `rest`
resolve_group_all(f, apply, mode, vecf) ==
    IF Len(vecf) <= 1 THEN Resolved(f, <<>>, <<>>)
    ELSE resolve_rest(f, apply, mode, vecf, 1)

resolve_group(f, apply, mode, vecf) ==
    IF Len(vecf) <= 1 THEN Resolved(f, <<>>, <<>>)
    ELSE resolve_rest(f, apply, mode, vecf, 2)

\* ------------------------------------------------------------------ initial trees

A == N("a", "")
B == N("b", "")
L == N("l", "")
FooTxt == N("foo", "txt")
Foo1Txt == N("foo-1", "txt")
Documents == N("Documents", "")
Projects == N("Projects", "")
Music == N("Music", "")
Proj == N("proj", "")
DotGit == N(".git", "")
Config == N("config", "")
Gone == N("gone", "")

\* the entries an initial tree is made of, in directory order
Catalogue ==
    << Dir(<<A>>),
       Dir(<<A, B>>),
       File(<<A, FooTxt>>, 1, "d1"),
       Link(<<A, L>>, Target(FALSE, <<FooTxt>>)),
       File(<<FooTxt>>, 1, "d2"),
       Link(<<L>>, Target(FALSE, <<FooTxt>>)),
       Dir(<<Documents>>),
       File(<<Documents, FooTxt>>, 1, "d1"),
       Link(<<Documents, FooTxt>>, Target(TRUE, <<Gone>>)),
       File(<<Documents, Foo1Txt>>, 1, "d2"),
       Dir(<<Proj>>),
       Dir(<<Proj, DotGit>>),
       File(<<Proj, FooTxt>>, 1, "d1"),
       Dir(<<Projects>>),
       Dir(<<Projects, Proj>>) >>

\* the entries of cat at the positions in I, in the order of cat
Pick(cat, I) ==
    LET idx == SelectSeq([i \in 1..Len(cat) |-> i], LAMBDA i : i \in I) IN
    [k \in DOMAIN idx |-> cat[idx[k]]]

\* a tree: no two entries at one path, every entry in a directory of the tree
IsTree(f) ==
    /\ \A i, j \in DOMAIN f : f[i].path = f[j].path => i = j
    /\ \A i \in DOMAIN f : KindOf(f, Parent(f[i].path)) = "dir"

Trees(cat) ==
    {Pick(cat, I) : I \in {J \in SUBSET (1..Len(cat)) :
                              Cardinality(J) <= MaxEntries /\ IsTree(Pick(cat, J))}}

\* the command lines of the model: only the first run may be a dry run
Clis(applies, cleans, prunes, dedups, modes, unders, roots) ==
    {[apply |-> [r \in 1..MaxRuns |-> IF r = 1 THEN a ELSE TRUE],
      clean |-> c, prune_empty_dirs |-> p, dedup |-> d, dedup_mode |-> m,
      under |-> u, root_name |-> rn, use_file_cmd |-> FALSE,
      allow_cross_device |-> FALSE] :
        a \in applies, c \in cleans, p \in prunes, d \in dedups, m \in modes,
        u \in unders, rn \in roots}

\* main before the traversal, in an environment: the tree, the command line,
\* the Settings, the mounted devices and whether `file` can be run
InitAll(trees, clis, setts, mnts, cmds) ==
    /\ fs \in trees
    /\ cli \in clis
    /\ settings \in setts
    /\ mounts \in mnts
    /\ file_cmd \in cmds
    /\ calls = <<>>
    /\ run = 1
    /\ pc = "plan"
    /\ it = <<Root>>
    /\ yielded = <<>>
    /\ planned_whole_dirs = {}
    /\ planned_actions = <<>>
    /\ executed = 0
    /\ prune_it = <<>>
    /\ files = <<>>
    /\ tasks = <<>>
    /\ groups = <<>>
    /\ todo = {}
    /\ log = <<>>
    /\ fs0 = fs
    /\ history = <<>>

\* main before the traversal on a system that has the program `file`
InitEnv(trees, clis, setts, mnts) == InitAll(trees, clis, setts, mnts, {TRUE})

\* a first start on a tree that lies on one device
InitWith(trees, clis) == InitEnv(trees, clis, {DefaultSettings}, {{}})

Init ==
    InitWith(Trees(Catalogue),
             Clis(BOOLEAN, {TRUE}, BOOLEAN, {<<>>}, {"Delete"}, {""}, {Dot})
                 \cup Clis(BOOLEAN, {TRUE}, BOOLEAN, {<<"Size">>},
                           {"Delete", "Hardlink", "Symlink"}, {""}, {Dot}))

\* ------------------------------------------------------------------ main

\* one entry of the traversal of main
PlanStep ==
    /\ pc = "plan"
    /\ it # <<>>
    /\ LET p == Head(it)
           d == PlanEntry(fs, p, planned_whole_dirs)
       IN  /\ planned_actions' = planned_actions \o d.acts
           /\ planned_whole_dirs' = planned_whole_dirs \cup d.whole
           /\ it' = (IF d.descend THEN Paths(ReadDir(fs, p)) ELSE <<>>) \o Tail(it)
           /\ yielded' = Append(yielded, p)
           /\ pc' = IF it' = <<>> THEN "exec" ELSE "plan"
    /\ UNCHANGED <<fs, cli, settings, mounts, file_cmd, calls, run, executed, prune_it, files, tasks, groups, todo, log, fs0, history>>

\* one turn of the loop of ActionEngine::execute_all; an Err ends main
ExecuteStep ==
    /\ pc = "exec"
    /\ executed < Len(planned_actions)
    /\ LET r == execute(fs, cli.apply[run], planned_actions[executed + 1]) IN
           /\ fs' = r.fs
           /\ log' = log \o r.lines
           /\ pc' = IF r.ok THEN "exec" ELSE "failed"
    /\ executed' = executed + 1
    /\ UNCHANGED <<cli, settings, mounts, file_cmd, calls, run, it, yielded, planned_whole_dirs, planned_actions, prune_it, files, tasks,
                   groups, todo, fs0, history>>

\* main after execute_all: prune_empty_dirs opens its walk when it is enabled
PruneBegin ==
    /\ pc = "exec"
    /\ executed = Len(planned_actions)
    /\ prune_it' = IF cli.prune_empty_dirs THEN ContentsFirst(fs, Root) ELSE <<>>
    /\ pc' = "prune"
    /\ UNCHANGED <<fs, cli, settings, mounts, file_cmd, calls, run, it, yielded, planned_whole_dirs, planned_actions, executed, files, tasks,
                   groups, todo, log, fs0, history>>

\* one entry of the walk of prune_empty_dirs
PruneStep ==
    /\ pc = "prune"
    /\ prune_it # <<>>
    /\ LET r == prune_entry(fs, cli.apply[run], Head(prune_it), skip_dirs) IN
           /\ fs' = r.fs
           /\ log' = log \o r.lines
    /\ prune_it' = Tail(prune_it)
    /\ UNCHANGED <<cli, settings, mounts, file_cmd, calls, run, pc, it, yielded, planned_whole_dirs, planned_actions, executed, files, tasks,
                   groups, todo, fs0, history>>

\* main: the dedupe phase starts with DedupePlan::scan and the grouping of
\* DedupePlan::apply, when a method is given
DedupeBegin ==
    /\ pc = "prune"
    /\ prune_it = <<>>
    /\ IF cli.dedup = <<>>
       THEN /\ pc' = "done"
            /\ UNCHANGED <<files, groups, todo>>
       ELSE /\ pc' = "dedupe"
            /\ files' = scan(fs, dest_root, cli.dedup)
            /\ groups' = GroupsOf(files', cli.dedup)
            /\ todo' = {k \in DOMAIN groups' : Len(groups'[k]) > 1}
    /\ UNCHANGED <<fs, cli, settings, mounts, file_cmd, calls, tasks, run, it, yielded, planned_whole_dirs, planned_actions, executed,
                   prune_it, log, fs0, history>>

\* DedupePlan::apply: the HashMap yields the groups in any order
DedupeGroup ==
    /\ pc = "dedupe"
    /\ \E k \in todo :
          LET r == resolve_group(fs, cli.apply[run], cli.dedup_mode, groups[k]) IN
              /\ fs' = r.fs
              /\ log' = log \o r.lines
              /\ todo' = todo \ {k}
              /\ calls' = calls \o r.calls
    /\ UNCHANGED <<cli, settings, mounts, file_cmd, run, pc, it, yielded, planned_whole_dirs, planned_actions, executed,
                   prune_it, files, tasks, groups, fs0, history>>

\* main returns Ok
DedupeEnd ==
    /\ pc = "dedupe"
    /\ todo = {}
    /\ pc' = "done"
    /\ UNCHANGED <<fs, cli, settings, mounts, file_cmd, calls, run, it, yielded, planned_whole_dirs, planned_actions, executed,
                   prune_it, files, tasks, groups, todo, log, fs0, history>>

\* the program is started again on the tree the last run left
NextRun ==
    /\ pc \in {"done", "failed"}
    /\ run < MaxRuns
    /\ history' = Append(history, [apply |-> cli.apply[run], plan |-> planned_actions,
                                   log |-> log, before |-> fs0, after |-> fs, pc |-> pc])
    /\ run' = run + 1
    /\ pc' = "plan"
    /\ it' = <<Root>>
    /\ yielded' = <<>>
    /\ planned_whole_dirs' = {}
    /\ planned_actions' = <<>>
    /\ executed' = 0
    /\ prune_it' = <<>>
    /\ files' = <<>>
    /\ tasks' = <<>>
    /\ groups' = <<>>
    /\ todo' = {}
    /\ log' = <<>>
    /\ fs0' = fs
    /\ calls' = <<>>
    /\ UNCHANGED <<fs, cli, settings, mounts, file_cmd>>

Next ==
    \/ PlanStep
    \/ ExecuteStep
    \/ PruneBegin
    \/ PruneStep
    \/ DedupeBegin
    \/ DedupeGroup
    \/ DedupeEnd
    \/ NextRun

Spec == Init /\ [][Next]_vars

\* ------------------------------------------------------------------ the Planner alone

Organized == N("Organized", "")

\* the entries of the trees the Planner is run on
PlanCatalogue ==
    << Dir(<<A>>),
       File(<<A, FooTxt>>, 1, "d1"),
       Link(<<A, L>>, Target(FALSE, <<FooTxt>>)),
       Dir(<<A, Music>>),
       Dir(<<A, Music, DotGit>>),
       File(<<FooTxt>>, 1, "d2"),
       Link(<<L>>, Target(FALSE, <<A, FooTxt>>)),
       Link(<<N("k", "")>>, Target(TRUE, <<Gone>>)),
       Dir(<<Proj>>),
       Dir(<<Proj, DotGit>>),
       File(<<Proj, FooTxt>>, 1, "d1"),
       File(<<Proj, Config>>, 1, "bare"),
       Dir(<<Music>>),
       Dir(<<Music, DotGit>>),
       Dir(<<Organized>>),
       File(<<Organized, FooTxt>>, 1, "d1"),
       File(<<N("x", "tmp")>>, 1, "d1"),
       File(<<N("z", "tmp")>>, 0, ""),
       File(<<N("e", "txt")>>, 0, ""),
       Dir(<<DotGit>>) >>

InitPlan ==
    InitWith(Trees(PlanCatalogue),
             Clis({TRUE}, BOOLEAN, {TRUE}, {<<>>}, {"Delete"}, {"", "Organized"},
                  {Dot, Documents}))

\* main up to the end of the traversal
SpecPlan == InitPlan /\ [][PlanStep]_vars

\* ------------------------------------------------------------------ the dedupe phase

Others == N("Others", "")
BarTxt == N("bar", "txt")

\* the entries of the trees the dedupe phase is run on: files that agree or
\* differ in name, size and content, inside and outside the destinations
DedupeCatalogue ==
    << Dir(<<Documents>>),
       File(<<Documents, FooTxt>>, 1, "d1"),
       File(<<Documents, BarTxt>>, 1, "d1"),
       Dir(<<Others>>),
       File(<<Others, FooTxt>>, 1, "d2"),
       File(<<Others, BarTxt>>, 2, "d3"),
       File(<<Others, N("baz", "")>>, 1, "d1"),
       File(<<FooTxt>>, 1, "d1"),
       File(<<BarTxt>>, 2, "d3") >>

Methods == {"Name", "Size", "Hash"}

\* the method lists of --dedup: every order of every non-empty set of methods
MethodLists ==
    {s \in UNION {[1..n -> Methods] : n \in 1..Cardinality(Methods)} :
        \A i, j \in DOMAIN s : s[i] = s[j] => i = j}

InitDedupe ==
    InitWith(Trees(DedupeCatalogue),
             Clis(BOOLEAN, {TRUE}, {TRUE}, MethodLists, {"Delete", "Hardlink", "Symlink"},
                  {""}, {Dot}))

SpecDedupe == InitDedupe /\ [][Next]_vars

\* ------------------------------------------------------------------ runs with failing operations

\* the entries of the trees on which operations of the engine fail: a file that
\* bears the name of a category, and destinations on another device
FaultCatalogue ==
    << File(<<Documents>>, 1, "d1"),
       Dir(<<Documents>>),
       File(<<Documents, FooTxt>>, 1, "d2"),
       File(<<FooTxt>>, 1, "d1"),
       File(<<BarTxt>>, 2, "d3"),
       Dir(<<Proj>>),
       Dir(<<Proj, DotGit>>),
       File(<<Proj, FooTxt>>, 1, "d1"),
       Link(<<Proj, L>>, Target(FALSE, <<FooTxt>>)),
       Dir(<<Projects>>),
       Dir(<<Projects, Proj>>) >>

\* the command lines with and without --allow-cross-device true
WithCrossDevice(clis) ==
    {[c EXCEPT !.allow_cross_device = b] : c \in clis, b \in BOOLEAN}

\* every device is mounted on a directory of the tree
Mounted == \A m \in mounts : KindOf(fs, m.at) = "dir"

InitFaults ==
    /\ InitEnv(Trees(FaultCatalogue),
               WithCrossDevice(Clis({TRUE}, {TRUE}, {TRUE}, {<<>>, <<"Size">>}, {"Delete"},
                                    {""}, {Dot})),
               {DefaultSettings},
               {{}, {Mount(<<Documents>>, TRUE, FALSE)}, {Mount(<<Projects>>, TRUE, FALSE)}})
    /\ Mounted

SpecFaults == InitFaults /\ [][Next]_vars

\* ------------------------------------------------------------------ the cross-device arm of move_dir

\* move_dir on a planned MoveDir whose rename fails with EXDEV, from the arm
\* `Err(err) if is_cross_device(&err) && self.allow_cross_device` on
FallbackStep ==
    /\ pc = "exec"
    /\ executed < Len(planned_actions)
    /\ LET a == planned_actions[executed + 1]
           dest == IF Exists(fs, a.dest) THEN unique_dir_dest(fs, a.dest) ELSE a.dest
           r == move_dir_fallback(fs, a.src, dest)
       IN  /\ a.type = "MoveDir"
           /\ cli.allow_cross_device
           /\ RenameErrno(fs, a.src, dest) = "EXDEV"
           /\ fs' = r.fs
           /\ pc' = IF r.ok THEN "exec" ELSE "failed"
           /\ log' = Append(log, Line("MOVE-DIR", a.src, a.dest, ""))
    /\ executed' = executed + 1
    /\ UNCHANGED <<cli, settings, mounts, file_cmd, calls, run, it, yielded, planned_whole_dirs, planned_actions,
                   prune_it, files, tasks, groups, todo, fs0, history>>

InitFallback ==
    /\ InitEnv(Trees(FaultCatalogue),
               WithCrossDevice(Clis({TRUE}, {TRUE}, {TRUE}, {<<>>}, {"Delete"}, {""}, {Dot})),
               {DefaultSettings},
               {{Mount(<<Projects>>, s, f)} : s \in BOOLEAN, f \in BOOLEAN})
    /\ Mounted

NextFallback ==
    \/ PlanStep
    \/ FallbackStep

SpecFallback == InitFallback /\ [][NextFallback]_vars

\* ------------------------------------------------------------------ the Classifier in the traversal

\* the Settings after the user edited the extension files: lists that share
\* entries, and an entry written in capitals
EditedSettings ==
    Settings({"png", "txt"}, {"mp3", "txt", "zip"}, {"txt", "pdf"}, {"zip", "txt", "BAK"},
             default_code_exts, default_home_markers)

\* the command lines with and without --use-file-cmd true
WithFileCmd(clis) ==
    {[c EXCEPT !.use_file_cmd = b] : c \in clis, b \in BOOLEAN}

\* the files the Classifier is asked about: extensions in one list, in
\* several, in capitals, in none, and none at all; contents that a probe
\* recognises and contents that none does
FileCatalogue ==
    << File(<<FooTxt>>, 1, "d1"),
       File(<<N("foo", "TXT")>>, 1, "png"),
       File(<<N("x", "zip")>>, 1, "mp3"),
       File(<<N("old", "BAK")>>, 1, "d1"),
       File(<<N("s", "png")>>, 1, "mp3"),
       File(<<N("t", "mp3")>>, 1, "png"),
       File(<<N("notes", "")>>, 1, "d1"),
       File(<<N("img", "")>>, 1, "png"),
       File(<<N("paper", "")>>, 1, "pdf"),
       File(<<N("empty", "")>>, 0, "") >>

Repo == N("repo", "git")

Objects == N("objects", "")

Refs == N("refs", "")

\* the code files of a directory, one with its extension in capitals
CodeFiles == <<N("a", "rs"), N("b", "py"), N("c", "RS"), N("d", "go"), N("e", "js")>>

\* children of the directory d that bear home-marker names
MarkerEntries(d) ==
    << Dir(<<d, Documents>>),
       Dir(<<d, Music>>),
       File(<<d, N(".bashrc", "")>>, 1, "d1"),
       Dir(<<d, N("Downloads", "")>>) >>

\* the tree that holds the directory d with k code files, the markers at the
\* positions ms, a `.git` (none, a directory or a file), a config file (none,
\* plain or with the line "bare = true") and the directories objects and refs
DirTree(d, k, ms, git, cfg, layout) ==
    <<Dir(<<d>>)>>
        \o [i \in 1..k |-> File(<<d, CodeFiles[i]>>, 1, "d1")]
        \o Pick(MarkerEntries(d), ms)
        \o (CASE git = "dir" -> <<Dir(<<d, DotGit>>)>>
              [] git = "file" -> <<File(<<d, DotGit>>, 1, "d1")>>
              [] OTHER -> <<>>)
        \o (CASE cfg = "bare" -> <<File(<<d, Config>>, 1, "bare")>>
              [] cfg = "plain" -> <<File(<<d, Config>>, 1, "d1")>>
              [] OTHER -> <<>>)
        \o (IF layout THEN <<Dir(<<d, Objects>>), Dir(<<d, Refs>>)>> ELSE <<>>)

DirTrees ==
    {t \in {DirTree(d, k, ms, git, cfg, layout) :
                d \in {Proj, Repo}, k \in 0..Len(CodeFiles), ms \in SUBSET (1..4),
                git \in {"none", "dir", "file"}, cfg \in {"none", "plain", "bare"},
                layout \in BOOLEAN} :
        Len(t) <= MaxChildren + 1}

InitClassify ==
    \/ InitEnv(DirTrees,
               Clis({TRUE}, {FALSE}, {TRUE}, {<<>>}, {"Delete"}, {""}, {Dot}),
               {DefaultSettings, EditedSettings}, {{}})
    \/ InitAll(Trees(FileCatalogue),
               WithFileCmd(Clis({TRUE}, {FALSE}, {TRUE}, {<<>>}, {"Delete"}, {"", "Organized"},
                                {Dot})),
               {DefaultSettings, EditedSettings}, {{}}, BOOLEAN)

\* the traversal of main with the Classifier under edited Settings
SpecClassify == InitClassify /\ [][PlanStep]_vars

\* ------------------------------------------------------------------ the dedupe phase with failing links

\* Others may lie on another device, on one that holds no symbolic links or
\* on one mounted read-only
InitLinks ==
    /\ InitEnv(Trees(DedupeCatalogue),
               Clis(BOOLEAN, {TRUE}, {TRUE}, {<<"Size">>, <<"Hash">>}, {"Hardlink", "Symlink"},
                    {""}, {Dot}),
               {DefaultSettings},
               {{}} \cup {{m} : m \in {Mount(<<Others>>, TRUE, FALSE),
                                     Mount(<<Others>>, FALSE, FALSE),
                                     ReadOnly(Mount(<<Others>>, TRUE, FALSE))}})
    /\ Mounted

SpecLinks == InitLinks /\ [][Next]_vars

\* ------------------------------------------------------------------ the parallel loop of scan

\* the task par_iter_mut starts for one record: queued, holding the digest it
\* has read, or done
Task(st, digest) == [st |-> st, digest |-> digest]

\* an assignment of the digest to the hash of the first record
store_hash_first(infos, i, digest) == [infos EXCEPT ![1].hash = digest]

\* compute_hash: `self.hash = Some(..)`, where self is the exclusive reference
\* par_iter_mut hands to the task of the i-th record
store_hash(infos, i, digest) == [infos EXCEPT ![i].hash = digest]

\* DedupePlan::scan: the walk collects the records; with the method Hash a
\* task is started for every record
ScanWalk ==
    /\ pc = "prune"
    /\ prune_it = <<>>
    /\ cli.dedup # <<>>
    /\ files' = collect(fs, dest_root)
    /\ tasks' = IF \E i \in DOMAIN cli.dedup : cli.dedup[i] = "Hash"
                THEN [i \in DOMAIN files' |-> Task("queued", NoHash)]
                ELSE <<>>
    /\ pc' = "hash"
    /\ UNCHANGED <<fs, cli, settings, mounts, file_cmd, calls, run, it, yielded,
                   planned_whole_dirs, planned_actions, executed, prune_it, groups, todo, log,
                   fs0, history>>

\* a task runs compute_hash up to the digest: the file is opened and read;
\* when that fails the task ends with an Err that for_each drops
HashRead ==
    /\ pc = "hash"
    /\ \E i \in DOMAIN tasks :
          /\ tasks[i].st = "queued"
          /\ tasks' = [tasks EXCEPT ![i] =
                          IF files[i].hash = NoHash /\ CanRead(fs, files[i].path)
                          THEN Task("read", blake3(Node(fs, files[i].path).data))
                          ELSE Task("done", NoHash)]
    /\ UNCHANGED <<fs, cli, settings, mounts, file_cmd, calls, run, pc, it, yielded,
                   planned_whole_dirs, planned_actions, executed, prune_it, files, groups, todo,
                   log, fs0, history>>

\* a task stores the digest in its record and ends
HashStore ==
    /\ pc = "hash"
    /\ \E i \in DOMAIN tasks :
          /\ tasks[i].st = "read"
          /\ files' = store_hash(files, i, tasks[i].digest)
          /\ tasks' = [tasks EXCEPT ![i] = Task("done", NoHash)]
    /\ UNCHANGED <<fs, cli, settings, mounts, file_cmd, calls, run, pc, it, yielded,
                   planned_whole_dirs, planned_actions, executed, prune_it, groups, todo, log,
                   fs0, history>>

\* for_each returns when every task has ended; DedupePlan::apply groups the
\* records
HashJoin ==
    /\ pc = "hash"
    /\ \A i \in DOMAIN tasks : tasks[i].st = "done"
    /\ groups' = GroupsOf(files, cli.dedup)
    /\ todo' = {k \in DOMAIN groups' : Len(groups'[k]) > 1}
    /\ pc' = "dedupe"
    /\ UNCHANGED <<fs, cli, settings, mounts, file_cmd, calls, run, it, yielded,
                   planned_whole_dirs, planned_actions, executed, prune_it, files, tasks, log,
                   fs0, history>>

\* the entries of the trees the parallel loop is run on: files the process
\* can and cannot read, of equal and of different sizes and contents
HashCatalogue ==
    << Dir(<<Documents>>),
       File(<<Documents, FooTxt>>, 1, "d1"),
       Unreadable(File(<<Documents, BarTxt>>, 1, "d1")),
       File(<<Documents, N("baz", "")>>, 1, "d1"),
       Unreadable(File(<<Documents, N("quux", "")>>, 1, "d4")),
       Unreadable(File(<<Documents, N("qux", "")>>, 2, "d3")),
       File(<<Documents, Foo1Txt>>, 2, "d3"),
       Unreadable(File(<<BarTxt>>, 2, "d3")) >>

InitHash ==
    InitWith(Trees(HashCatalogue),
             Clis(BOOLEAN, {TRUE}, {TRUE}, {<<"Hash">>, <<"Size", "Hash">>, <<"Size">>},
                  {"Delete"}, {""}, {Dot}))

NextHash ==
    \/ PlanStep
    \/ ExecuteStep
    \/ PruneBegin
    \/ PruneStep
    \/ ScanWalk
    \/ HashRead
    \/ HashStore
    \/ HashJoin
    \/ DedupeGroup
    \/ DedupeEnd

\* one run of main with the tasks of the parallel loop interleaved
SpecHash == InitHash /\ [][NextHash]_vars

\* ------------------------------------------------------------------ the same tree under another root name

\* the traversal is over; the Planner is started again on the same tree
\* given under another name: the working directory, a directory with a plain
\* name, a directory named like a category
RerunAs ==
    /\ pc = "exec"
    /\ run = 1
    /\ \E rn \in {Dot, Proj, Documents} \ {cli.root_name} : cli' = [cli EXCEPT !.root_name = rn]
    /\ history' = Append(history, [apply |-> cli.apply[run], plan |-> planned_actions,
                                   log |-> log, before |-> fs0, after |-> fs, pc |-> pc])
    /\ run' = run + 1
    /\ pc' = "plan"
    /\ it' = <<Root>>
    /\ yielded' = <<>>
    /\ planned_whole_dirs' = {}
    /\ planned_actions' = <<>>
    /\ UNCHANGED <<fs, settings, mounts, file_cmd, calls, executed, prune_it, files, tasks,
                   groups, todo, log, fs0>>

InitRoots ==
    InitWith(Trees(PlanCatalogue),
             Clis({FALSE}, {TRUE}, {TRUE}, {<<>>}, {"Delete"}, {"", "Organized"},
                  {Dot, Proj}))

NextRoots ==
    \/ PlanStep
    \/ RerunAs

\* the Planner on one tree under two root names
SpecRoots == InitRoots /\ [][NextRoots]_vars

\* ------------------------------------------------------------------ claims

Ops(lines) == {lines[i].op : i \in DOMAIN lines}

Notes(lines) == {lines[i].note : i \in DOMAIN lines}

RunOver == pc \in {"done", "failed"}

\* C1: a dry run and an apply run on the same tree and flags plan the same
\* Actions and log the same lines, in the same order
C1_DryRunLogsWhatApplyLogs ==
    (run = 2 /\ RunOver /\ ~history[1].apply /\ cli.apply[2])
        => /\ planned_actions = history[1].plan
           /\ log = history[1].log

C3_SecondRunPlansNothing ==
    (run = 2 /\ history[1].apply /\ history[1].pc = "done" /\ cli.clean /\ cli.dedup = <<>>)
        => planned_actions = <<>>

\* the least k >= 1 for which Candidate(path, k) is free
LeastFree(f, path, Candidate(_, _)) ==
    CHOOSE k \in 1..(Len(f) + 1) :
        /\ ~Has(f, Candidate(path, k))
        /\ \A j \in 1..(k - 1) : Has(f, Candidate(path, j))

\* the subtree at src of f is at dest in g, entry for entry
SubtreeAt(f, src, g, dest) ==
    \A i \in DOMAIN f :
        StartsWith(f[i].path, src) =>
            LET q == dest \o SubSeq(f[i].path, Len(src) + 1, Len(f[i].path)) IN
            Has(g, q) /\ Node(g, q) = [f[i] EXCEPT !.path = q]

\* ExecuteStep executes the planned action a in apply mode
Executes(a) ==
    /\ pc = "exec"
    /\ executed < Len(planned_actions)
    /\ executed' = executed + 1
    /\ cli.apply[run]
    /\ a = planned_actions[executed + 1]

\* C4: in apply mode MoveFile puts the file at the target when it is free, and
\* at name-k.ext for the least k >= 1 whose path is free when it is occupied
C4_MoveFileTakesLeastFreeName ==
    [][\A a \in {planned_actions[i] : i \in DOMAIN planned_actions} :
          (/\ Executes(a)
           /\ a.type = "MoveFile"
           /\ KindOf(fs, a.src) = "file"
           /\ create_dir_all(fs, a.dest).ok)
          => LET target == Join(a.dest, Last(a.src))
                 want == IF ~Has(fs, target) THEN target
                         ELSE FileCandidate(target, LeastFree(fs, target, FileCandidate))
             IN  /\ ~Has(fs', a.src)
                 /\ SubtreeAt(fs, a.src, fs', want)]_vars

StrictlyUnder(p, d) == p # d /\ StartsWith(p, d)

PlanComplete == pc # "plan"

Planned == {planned_actions[i] : i \in DOMAIN planned_actions}

Yielded == {yielded[i] : i \in DOMAIN yielded}

DirName(p) == IF p = Root THEN RootFileName ELSE Last(p)

\* the directory p is planned as one MoveDir into category cat, nothing below
\* it is planned and the traversal yielded nothing below it
MovedWhole(p, cat) ==
    /\ \E i \in DOMAIN planned_actions :
          /\ planned_actions[i] = MoveDir(p, dest_root \o <<N(cat, ""), DirName(p)>>)
          /\ \A j \in DOMAIN planned_actions : planned_actions[j].src = p => j = i
    /\ \A a \in Planned : ~StrictlyUnder(a.src, p)
    /\ \A q \in Yielded : ~StrictlyUnder(q, p)

HoldsDotGit(p) == KindOf(fs0, p) = "dir" /\ IsDir(fs0, Join(p, DotGit))

\* C5 as stated: every directory the traversal reaches (yields outside the
\* skip-roots) that holds a .git directory is planned as one MoveDir to
\* Projects/<name>, with nothing below it planned or visited
C5_GitDirMovedToProjects ==
    PlanComplete =>
        \A p \in Yielded :
            (HoldsDotGit(p) /\ ~UnderAny(p, skip_dirs)) => MovedWhole(p, "Projects")

\* the Planner decides on the directory p: it is under no skip-root and bears
\* neither a category name nor the organized-under name
Decided(p) ==
    /\ ~UnderAny(p, skip_dirs)
    /\ FileName(IF p = Root THEN cli.root_name ELSE Last(p)) \notin category_names
    /\ (cli.under = "" \/ FileName(IF p = Root THEN cli.root_name ELSE Last(p)) # cli.under)

\* C5 amended: a yielded directory that the Planner decides on, that holds a
\* .git directory and has no bare-repository signature is planned as one
\* MoveDir to Projects/<name>, with nothing below it planned or visited
C5_DecidedGitDirMovedToProjects ==
    PlanComplete =>
        \A p \in Yielded :
            (HoldsDotGit(p) /\ Decided(p) /\ ~is_bare_git_repo(fs0, p, DirName(p)))
                => MovedWhole(p, "Projects")

\* the plan is complete and holds the move of a working copy that has a file
C5_Witness ==
    /\ PlanComplete
    /\ HoldsDotGit(<<Proj>>)
    /\ Decided(<<Proj>>)
    /\ KindOf(fs0, <<Proj, FooTxt>>) = "file"
    /\ ~is_bare_git_repo(fs0, <<Proj>>, Proj)
    /\ MovedWhole(<<Proj>>, "Projects")

\* C6: in apply mode a MoveDir of an existing directory leaves nothing at the
\* source and the whole subtree at the destination: at dirName when that is
\* free, at dirName-k for the least free k >= 1 when it exists
C6_MoveDirRelocatesSubtree ==
    [][\A a \in {planned_actions[i] : i \in DOMAIN planned_actions} :
          (/\ Executes(a)
           /\ a.type = "MoveDir"
           /\ a.src # Root
           /\ KindOf(fs, a.src) = "dir")
          => LET want == IF ~Has(fs, a.dest) THEN a.dest
                         ELSE DirCandidate(a.dest, LeastFree(fs, a.dest, DirCandidate))
             IN  /\ ~Has(fs', a.src)
                 /\ SubtreeAt(fs, a.src, fs', want)]_vars

\* the link at p points at something, resolved as the kernel resolves it: a
\* relative target against the directory that holds the link
LinkTargetExists(f, p) == Exists(f, p)

\* C9: a yielded symlink outside the skip-roots is planned for
\* Delete(link, "broken symlink") exactly when its target does not exist, and
\* gets no action otherwise
C9_BrokenSymlinkRule ==
    PlanComplete =>
        \A p \in Yielded :
            (KindOf(fs0, p) = "link" /\ ~UnderAny(p, skip_dirs))
                => IF LinkTargetExists(fs0, p)
                   THEN \A a \in Planned : a.src # p
                   ELSE Delete(p, "broken symlink") \in Planned

\* two records agree on a method
Agree(x, y, m) ==
    CASE m = "Name" -> x.name = y.name
      [] m = "Size" -> x.size = y.size
      [] m = "Hash" -> x.hash = y.hash

InGroup(x, k) == \E i \in DOMAIN groups[k] : groups[k][i] = x

\* C7: two scanned files are in one duplicate group exactly when they agree on
\* every enabled method
C7_GroupedIffAgreeOnAllMethods ==
    pc = "dedupe" =>
        \A i, j \in DOMAIN files :
            (\E k \in DOMAIN groups : InGroup(files[i], k) /\ InGroup(files[j], k))
                <=> (\A n \in DOMAIN cli.dedup : Agree(files[i], files[j], cli.dedup[n]))

\* with {Name, Size}, two files of equal name and size and different content
\* are in one group
C7_Witness ==
    /\ pc = "dedupe"
    /\ cli.dedup = <<"Name", "Size">>
    /\ \E k \in DOMAIN groups : \E i, j \in DOMAIN groups[k] :
          /\ groups[k][i].name = groups[k][j].name
          /\ groups[k][i].size = groups[k][j].size
          /\ KindOf(fs, groups[k][i].path) = "file"
          /\ KindOf(fs, groups[k][j].path) = "file"
          /\ Node(fs, groups[k][i].path).data # Node(fs, groups[k][j].path).data

DupReasons == {DupReason(m) : m \in {"Delete", "Hardlink", "Symlink"}}

\* how many Delete actions of the dedupe phase have the path p
DupDeletes(p) ==
    Cardinality({n \in DOMAIN log :
                    log[n].op = "DELETE" /\ log[n].src = p /\ log[n].note \in DupReasons})

\* C8: of every resolved group of more than one record the first in scan order
\* gets no Delete and stays in place, every other gets exactly one Delete, and
\* the records of groups of one and of groups not yet resolved get none
C8_FirstInScanOrderSurvives ==
    pc \in {"dedupe", "done"} =>
        \A k \in DOMAIN groups : \A i \in DOMAIN groups[k] :
            LET g == groups[k] IN
            IF k \in todo \/ Len(g) = 1 THEN DupDeletes(g[i].path) = 0
            ELSE IF i = 1
            THEN /\ DupDeletes(g[i].path) = 0
                 /\ KindOf(fs, g[i].path) = "file"
            ELSE DupDeletes(g[i].path) = 1

\* all groups are resolved, one of three records and one of a single record
C8_Witness ==
    /\ pc = "done"
    /\ cli.apply[run]
    /\ \E k \in DOMAIN groups : Len(groups[k]) = 3
    /\ \E k \in DOMAIN groups : Len(groups[k]) = 1

\* C10: in the log of a run no MOVE, MOVE-DIR or DELETE follows a PRUNE
C10_NoActionAfterPrune ==
    \A i, j \in DOMAIN log :
        (i < j /\ log[i].op = "PRUNE") => log[j].op \notin {"MOVE", "MOVE-DIR", "DELETE"}

\* C11: in apply mode a turn of the pruning walk changes the tree only by
\* removing the directory it visits, and only when that directory has no
\* children at that moment, is not the root and is under no skip-root; no
\* PRUNE line names the root or a path under a skip-root
C11_PruneRemovesOnlyEmptyDirs ==
    [][(/\ pc = "prune"
        /\ prune_it # <<>>
        /\ prune_it' = Tail(prune_it)
        /\ cli.apply[run])
       => LET p == Head(prune_it) IN
          /\ fs' # fs =>
                /\ KindOf(fs, p) = "dir"
                /\ ReadDir(fs, p) = <<>>
                /\ p # Root
                /\ ~UnderAny(p, skip_dirs)
                /\ fs' = SelectSeq(fs, LAMBDA e : e.path # p)
          /\ \A i \in DOMAIN log' :
                log'[i].op = "PRUNE" =>
                    log'[i].src # Root /\ ~UnderAny(log'[i].src, skip_dirs)]_vars

\* an apply run pruned a directory and then its parent, and left an empty
\* directory under a skip-root
C11_Witness ==
    /\ pc = "prune"
    /\ prune_it = <<>>
    /\ cli.apply[run]
    /\ \E i, j \in DOMAIN log :
          /\ i < j
          /\ log[i].op = "PRUNE" /\ log[j].op = "PRUNE"
          /\ log[i].src = <<A, B>> /\ log[j].src = <<A>>
    /\ \E i \in DOMAIN fs :
          /\ fs[i].kind = "dir"
          /\ ReadDir(fs, fs[i].path) = <<>>
          /\ UnderAny(fs[i].path, skip_dirs)

\* C12: no failure of an action ends the run: a run that ends has executed
\* every planned action and has gone through the pruning and dedupe phases
C12_NoActionFailureIsFatal ==
    pc \in {"done", "failed"} => (pc = "done" /\ executed = Len(planned_actions))

\* the lines a step adds to the log
NewLines == SubSeq(log', Len(log) + 1, Len(log'))

\* C19: in apply mode a MoveFile whose rename fails because source and
\* destination lie on different devices ends, with the fallback allowed, with
\* the file at the collision-free destination, gone from the source and no
\* ERROR line; with the fallback not allowed it logs an ERROR and the source
\* stays
C19_CrossDeviceFallback ==
    [][\A a \in {planned_actions[i] : i \in DOMAIN planned_actions} :
          LET made == create_dir_all(fs, a.dest)
              dest == unique_dest_path(made.fs, Join(a.dest, Last(a.src)))
          IN  (/\ Executes(a)
               /\ a.type = "MoveFile"
               /\ KindOf(fs, a.src) = "file"
               /\ made.ok
               /\ RenameErrno(made.fs, a.src, dest) = "EXDEV")
              => IF cli.allow_cross_device
                 THEN /\ ~Has(fs', a.src)
                      /\ SubtreeAt(fs, a.src, fs', dest)
                      /\ "ERROR moving" \notin Ops(NewLines)
                 ELSE /\ SubtreeAt(fs, a.src, fs', a.src)
                      /\ "ERROR moving" \in Ops(NewLines)]_vars

C13_NoDeleteWithoutClean ==
    (PlanComplete /\ ~cli.clean) => \A a \in Planned : a.type # "Delete"

\* no path is the source of two planned actions, and no source lies below
\* the source of a planned MoveDir
NoEntryPlannedTwice ==
    /\ \A i, j \in DOMAIN planned_actions :
          planned_actions[i].src = planned_actions[j].src => i = j
    /\ \A a, b \in Planned : b.type = "MoveDir" => ~StrictlyUnder(a.src, b.src)

\* C16: after every step of the traversal no entry is planned twice, and the
\* step only adds to the planned-whole-dir set
C16_NoEntryPlannedTwice ==
    [][NoEntryPlannedTwice' /\ planned_whole_dirs \subseteq planned_whole_dirs']_vars

\* the plan holds the move of a whole directory that has a file, beside
\* another action
C16_Witness ==
    /\ PlanComplete
    /\ Len(planned_actions) >= 2
    /\ \E d \in planned_whole_dirs :
          /\ MoveDir(d, dest_root \o <<N("Projects", ""), DirName(d)>>) \in Planned
          /\ \E i \in DOMAIN fs0 : fs0[i].kind = "file" /\ StrictlyUnder(fs0[i].path, d)

\* C17: the source of a planned action is not at or under a skip-root, and no
\* skip-root is at or under it
C17_SourcesDisjointFromSkipRoots ==
    PlanComplete =>
        \A a \in Planned : \A r \in skip_dirs :
            ~StartsWith(a.src, r) /\ ~StartsWith(r, a.src)

\* the traversal reaches the file at p: it yields it outside the skip-roots
\* and outside the directories planned as a whole
ReachedFile(p) ==
    /\ p \in Yielded
    /\ KindOf(fs0, p) = "file"
    /\ ~UnderAny(p, skip_dirs)
    /\ ~UnderAny(p, planned_whole_dirs)

\* the action the decision order gives the file at p
FileDecision(p) ==
    IF is_pattern_match(p) /\ cli.clean THEN Delete(p, "cache/temp/junk (pattern)")
    ELSE IF Node(fs0, p).size = 0 /\ cli.clean THEN Delete(p, "empty file")
    ELSE MoveFile(p, Join(dest_root, N(categorize_file(fs0, p, cli.use_file_cmd), "")))

\* C18: every regular file the traversal reaches is the source of exactly one
\* planned action: the pattern Delete, else the empty-file Delete, else the
\* MoveFile to its category
C18_FileDecisionOrder ==
    PlanComplete =>
        \A p \in Yielded :
            ReachedFile(p) =>
                /\ FileDecision(p) \in Planned
                /\ \A a \in Planned : a.src = p => a = FileDecision(p)
                /\ Cardinality({i \in DOMAIN planned_actions : planned_actions[i].src = p}) = 1

\* with clean enabled the plan deletes an empty file that matches a pattern as
\* junk and an empty file that matches none as empty, and moves a file
C18_Witness ==
    /\ PlanComplete
    /\ cli.clean
    /\ Delete(<<N("z", "tmp")>>, "cache/temp/junk (pattern)") \in Planned
    /\ Delete(<<N("e", "txt")>>, "empty file") \in Planned
    /\ \E a \in Planned : a.type = "MoveFile"

\* the extension ext is in the configured list of category c, compared
\* without regard to case
Listed(ext, c) ==
    /\ ext # ""
    /\ \E e \in settings.category_exts[c] : to_lowercase(e) = to_lowercase(ext)

\* the earliest category, in the order Media, Music, Documents, Archives,
\* whose list holds ext; "" when none does
FirstListed(ext) ==
    IF Listed(ext, "Media") THEN "Media"
    ELSE IF Listed(ext, "Music") THEN "Music"
    ELSE IF Listed(ext, "Documents") THEN "Documents"
    ELSE IF Listed(ext, "Archives") THEN "Archives"
    ELSE ""

\* a probe recognises the content of the file p: the MIME probe, when
\* enabled, names an image, video, audio, document or archive type, or the
\* magic bytes are those of an image, video or audio type
RecognisedByContent(p) ==
    LET data == Node(fs0, p).data IN
    \/ /\ cli.use_file_cmd
       /\ \/ mime_via_file_cmd(data).top \in {"image", "video", "audio"}
          \/ is_document_mime(mime_via_file_cmd(data))
          \/ is_archive_mime(mime_via_file_cmd(data))
    \/ infer_get(data).top \in {"image", "video", "audio"}

\* C14: every planned MoveFile of a file whose extension is, compared without
\* regard to case, in one or more of the configured lists goes to the earliest
\* category in the order Media, Music, Documents, Archives whose list holds
\* it, whatever the content of the file; a file whose extension is in no list
\* and whose content no probe recognises goes to Others
C14_ExtensionFirstMatch ==
    \A a \in Planned :
        a.type = "MoveFile" =>
            LET c == FirstListed(Last(a.src).ext) IN
            /\ c # "" => a.dest = Join(dest_root, N(c, ""))
            /\ (c = "" /\ ~RecognisedByContent(a.src))
                  => a.dest = Join(dest_root, N("Others", ""))

ChildrenOf(p) == {fs0[i].path : i \in {j \in DOMAIN fs0 : Parent(fs0[j].path) = p}}

\* rule (a): the bare-repository signature
RuleA(p) == is_bare_git_repo(fs0, p, DirName(p))

\* rule (b): a `.git` subdirectory
RuleB(p) == IsDir(fs0, Join(p, DotGit))

\* rule (c): at least 5 direct child files with a recognised code extension
RuleC(p) ==
    Cardinality({q \in ChildrenOf(p) :
                    /\ IsFile(fs0, q)
                    /\ Last(q).ext # ""
                    /\ to_lowercase(Last(q).ext) \in settings.code_exts}) >= 5

\* rule (d): at least 3 direct children whose names are home markers
RuleD(p) ==
    Cardinality({q \in ChildrenOf(p) : FileName(Last(q)) \in settings.home_markers}) >= 3

\* the category of the first satisfied rule, "" when no rule is satisfied
FirstRule(p) ==
    IF RuleA(p) THEN "GitRepos"
    ELSE IF RuleB(p) THEN "Projects"
    ELSE IF RuleC(p) THEN "Projects"
    ELSE IF RuleD(p) THEN "Backups"
    ELSE ""

\* C15: a directory the Planner decides on is planned as one MoveDir into the
\* category of the first satisfied rule among (a) bare-repository signature ->
\* GitRepos, (b) `.git` subdirectory -> Projects, (c) 5 code files -> Projects,
\* (d) 3 home markers -> Backups, and is planned as no MoveDir exactly when no
\* rule is satisfied
C15_DirectoryRulesInOrder ==
    \A p \in Yielded :
        (KindOf(fs0, p) = "dir" /\ Decided(p)) =>
            IF FirstRule(p) = ""
            THEN \A a \in Planned : ~(a.type = "MoveDir" /\ a.src = p)
            ELSE MovedWhole(p, FirstRule(p))

\* the plan is complete and moves to Projects a directory that satisfies
\* rules (c) and (d) and neither (a) nor (b)
C15_Witness ==
    /\ PlanComplete
    /\ \E p \in Yielded :
          /\ KindOf(fs0, p) = "dir"
          /\ Decided(p)
          /\ ~RuleA(p) /\ ~RuleB(p) /\ RuleC(p) /\ RuleD(p)
          /\ MovedWhole(p, "Projects")

LinkCalls == {"hard_link", "symlink"}

\* the removal of the duplicate at path succeeded before the j-th call
RemovedBefore(path, j) ==
    \E i \in 1..(j - 1) : calls[i] = Call("remove", path, TRUE)

\* C21: in the dedupe phase a hard link or symbolic link is made for a
\* duplicate only in apply mode and only after the removal of that duplicate
\* has succeeded; no link is attempted for a duplicate that was not removed
C21_LinkOnlyAfterDelete ==
    \A j \in DOMAIN calls :
        calls[j].call \in LinkCalls
            => cli.apply[run] /\ RemovedBefore(calls[j].path, j)

\* the log holds, after the DELETE line of the duplicate at path, a line that
\* is no MOVE, MOVE-DIR, DELETE or PRUNE line and names the path
FailureLogged(path) ==
    \E d, i \in DOMAIN log :
        /\ d < i
        /\ log[d].op = "DELETE" /\ log[d].src = path
        /\ log[i].op \notin {"MOVE", "MOVE-DIR", "DELETE", "PRUNE"}
        /\ log[i].src = path

\* C22: in apply mode, when a duplicate has been removed and the hard link or
\* symbolic link to the canonical file cannot be made, the log holds a line
\* that reports the failure
C22_LinkFailureLogged ==
    \A j \in DOMAIN calls :
        (/\ calls[j].call \in LinkCalls
         /\ ~calls[j].ok
         /\ RemovedBefore(calls[j].path, j))
            => FailureLogged(calls[j].path)

\* the extension ext is in one of the configured lists, as categorize_file
\* compares it
ExtMatched(ext) ==
    /\ ext # ""
    /\ to_lowercase(ext) \in UNION {settings.category_exts[c] :
                                       c \in {"Media", "Music", "Documents", "Archives"}}

\* the category of a type: image/video -> Media, audio -> Music, a recognised
\* document or text type -> Documents, a recognised archive type -> Archives,
\* anything else (no type included) -> Others
CategoryOfType(m) ==
    IF m.top \in {"image", "video"} THEN "Media"
    ELSE IF m.top = "audio" THEN "Music"
    ELSE IF is_document_mime(m) THEN "Documents"
    ELSE IF is_archive_mime(m) THEN "Archives"
    ELSE "Others"

\* the type of the content of the file p: none when content-sniffing is
\* disabled, else that of the MIME probe, or, failing that, that of the
\* magic bytes
ProbedType(p) ==
    LET data == Node(fs0, p).data IN
    IF ~cli.use_file_cmd THEN NoMime
    ELSE IF file_cmd THEN file_mime_type(data)
    ELSE infer_get(data)

\* C23: every planned MoveFile of a file whose extension is in no list goes
\* to the category of the type of its content, by one mapping whichever probe
\* gave the type, and to Others when content-sniffing is disabled
C23_ContentMapping ==
    \A a \in Planned :
        (a.type = "MoveFile" /\ ~ExtMatched(Last(a.src).ext))
            => a.dest = Join(dest_root, N(CategoryOfType(ProbedType(a.src)), ""))

HashWanted == \E i \in DOMAIN cli.dedup : cli.dedup[i] = "Hash"

\* C24: in the parallel loop of the scan a step of a task changes nothing but
\* the hash of the record of that task, sets it once (from unset to the digest
\* of the file of that record), and when the loop has ended the records are,
\* for every interleaving, those of the walk in its order, each with the
\* digest of its file, or no hash when the file could not be read
C24_ParallelHashing ==
    [][/\ (pc = "hash" /\ pc' = "hash") =>
            \A i \in DOMAIN files :
                files'[i] # files[i] =>
                    /\ tasks[i].st = "read" /\ tasks'[i].st = "done"
                    /\ files[i].hash = NoHash
                    /\ files'[i] = [files[i] EXCEPT
                                       !.hash = blake3(Node(fs, files[i].path).data)]
                    /\ \A j \in DOMAIN files \ {i} : files'[j] = files[j]
       /\ (pc = "hash" /\ pc' = "dedupe") =>
            /\ files = scan(fs, dest_root, cli.dedup)
            /\ \A i \in DOMAIN files :
                  files[i].hash = NoHash <=> (~HashWanted \/ ~CanRead(fs, files[i].path))]_vars

\* the loop is running: a later record has its hash while an earlier task is
\* still queued, and the task of a file that cannot be read has ended
C24_Witness ==
    /\ pc = "hash"
    /\ \E i, j, k \in DOMAIN tasks :
          /\ i < j
          /\ tasks[i].st = "queued"
          /\ tasks[j].st = "done" /\ files[j].hash # NoHash
          /\ tasks[k].st = "done" /\ ~CanRead(fs, files[k].path) /\ files[k].hash = NoHash

Unhashed(i) == files[i].hash = NoHash

\* the records i and j agree on every enabled method other than Hash
AgreeOnOthers(i, j) ==
    \A m \in DOMAIN cli.dedup :
        /\ cli.dedup[m] = "Name" => files[i].name = files[j].name
        /\ cli.dedup[m] = "Size" => files[i].size = files[j].size

\* the records i and j are in one group of the groups map
SameGroup(i, j) ==
    \E k \in DOMAIN groups :
        /\ \E a \in DOMAIN groups[k] : groups[k][a] = files[i]
        /\ \E b \in DOMAIN groups[k] : groups[k][b] = files[j]

\* the dedupe phase logged the Delete of the duplicate at p
DuplicateDeleted(p) ==
    \E l \in DOMAIN log :
        log[l].op = "DELETE" /\ log[l].src = p /\ log[l].note = DupReason(cli.dedup_mode)

\* C25: with the method Hash, two records without a hash that agree on the
\* other enabled methods are in one group, whatever their contents, a record
\* without a hash is in no group with a record that has one, and of the
\* records without a hash exactly those that follow, in scan order, another
\* one they agree with are deleted as duplicates
C25_UnhashedShareOneBucket ==
    (pc \in {"dedupe", "done"} /\ HashWanted) =>
        \A i, j \in DOMAIN files :
            /\ (Unhashed(i) /\ Unhashed(j) /\ AgreeOnOthers(i, j)) => SameGroup(i, j)
            /\ (Unhashed(i) /\ ~Unhashed(j)) => ~SameGroup(i, j)
            /\ (pc = "done" /\ Unhashed(j)) =>
                  (DuplicateDeleted(files[j].path)
                      <=> \E h \in 1..(j - 1) : Unhashed(h) /\ AgreeOnOthers(h, j))

\* an apply run is over: of two files of different contents that could not be
\* read the first is kept and the second is gone
C25_Witness ==
    /\ pc = "done"
    /\ cli.apply[run]
    /\ HashWanted
    /\ \E i, j \in DOMAIN files :
          /\ i < j
          /\ Unhashed(i) /\ Unhashed(j)
          /\ KindOf(fs0, files[i].path) = "file" /\ KindOf(fs0, files[j].path) = "file"
          /\ Node(fs0, files[i].path).data # Node(fs0, files[j].path).data
          /\ SameGroup(i, j)
          /\ Has(fs, files[i].path)
          /\ ~Has(fs, files[j].path)

\* the planned MoveFile actions into the directory d
MoveFilesTo(d) ==
    {i \in DOMAIN planned_actions :
        planned_actions[i].type = "MoveFile" /\ planned_actions[i].dest = d}

\* two of the planned MoveFile actions into d carry the same file name
Collide(d) ==
    \E i, j \in MoveFilesTo(d) :
        i # j /\ Last(planned_actions[i].src) = Last(planned_actions[j].src)

\* the entries directly in the directory d
EntriesIn(f, d) == {f[i] : i \in {j \in DOMAIN f : Parent(f[j].path) = d}}

SameContent(e1, e2) == e1.size = e2.size /\ e1.data = e2.data

ExecuteAllDone == pc = "exec" /\ executed = Len(planned_actions)

\* the MoveFile actions into d have relocated their files: the sources are
\* gone, every entry that was in d before the run is there unchanged, and d
\* holds one new file per action, with the contents of the sources
MovedWithoutLoss(d) ==
    LET before == EntriesIn(fs0, d)
        after  == EntriesIn(fs, d)
        new    == after \ before
        srcs   == {planned_actions[i].src : i \in MoveFilesTo(d)}
    IN  /\ before \subseteq after
        /\ \A p \in srcs : ~Has(fs, p)
        /\ Cardinality(new) = Cardinality(MoveFilesTo(d))
        /\ \A e \in new :
              /\ e.kind = "file"
              /\ Cardinality({x \in new : SameContent(x, e)})
                    = Cardinality({p \in srcs : SameContent(Node(fs0, p), e)})

\* C26: when execute_all has run in apply mode over a plan in which several
\* MoveFile actions into one destination directory carry the same file name,
\* every moved file is at a path of its own in that directory and every entry
\* that was in the directory before the run is still there, unchanged
C26_MoveFileKeepsEveryFile ==
    (ExecuteAllDone /\ cli.apply[run]) =>
        \A d \in {planned_actions[i].dest : i \in DOMAIN planned_actions} :
            (Collide(d) /\ (Has(fs0, d) => IsDir(fs0, d))) => MovedWithoutLoss(d)

\* C27: the plan for a tree does not depend on the name of its root: the
\* traversal of the same tree under another root name plans the same Actions
\* (paths taken below the root)
C27_PlanIndependentOfRootName ==
    (run = 2 /\ PlanComplete) => planned_actions = history[1].plan

SetOf(seq) == {seq[i] : i \in DOMAIN seq}

\* what the dedupe phase leaves when the groups td are resolved, in one fixed
\* order, on the filesystem f after the lines lg: the entries of the
\* filesystem, the lines logged and the paths deleted
RECURSIVE ResolveAll(_, _, _)
ResolveAll(f, lg, td) ==
    IF td = {}
    THEN [entries |-> SetOf(f),
          lines |-> SetOf(lg),
          deleted |-> {l.src : l \in {x \in SetOf(lg) : x.op = "DELETE"}}]
    ELSE LET k == CHOOSE x \in td : TRUE
             r == resolve_group(f, cli.apply[run], cli.dedup_mode, groups[k])
         IN  ResolveAll(r.fs, lg \o r.lines, td \ {k})

\* C28: whichever group the dedupe phase resolves next, what it leaves in the
\* end is the same: the entries of the filesystem (the surviving canonical
\* files among them), the paths deleted and the lines logged
C28_GroupOrderDoesNotMatter ==
    [][(pc = "dedupe" /\ pc' = "dedupe")
          => ResolveAll(fs', log', todo') = ResolveAll(fs, log, todo)]_vars

\* an apply run has resolved two groups of duplicates, and the canonical file
\* of each is still there
C28_Witness ==
    /\ pc = "done"
    /\ cli.apply[run]
    /\ \E k1, k2 \in DOMAIN groups :
          /\ k1 # k2
          /\ Len(groups[k1]) > 1 /\ Len(groups[k2]) > 1
          /\ \A k \in {k1, k2} :
                /\ KindOf(fs, groups[k][1].path) = "file"
                /\ \A i \in 2..Len(groups[k]) :
                      \E l \in DOMAIN log :
                          log[l].op = "DELETE" /\ log[l].src = groups[k][i].path

====
